---- MODULE Spec2Model ----
(***************************************************************************)
(* Model of assignment.py: JSON (de)serialization of Stock and Trade       *)
(* records through the tagged-dict codec (CustomEncoder / custom_decoder)  *)
(* and through the Marshmallow schemas (StockSchema / TradeSchema).        *)
(*                                                                         *)
(* Python text is a sequence of one-character strings.  Python values are  *)
(* records with a type field t.  A raised exception is a value of type     *)
(* "raise".  JSON text is a sequence of tokens.                            *)
(***************************************************************************)
EXTENDS Integers, Sequences, FiniteSets, TLC

VARIABLES
  call,     \* the operation called last
  obj,      \* its argument: the object encoded, or the mapping decoded
  text,     \* the JSON text at hand: encoded by the last encode, or the caller's
  src,      \* which operation produced text
  schemaUsed, \* the schema the last schema decode was given
  result,   \* what the last call returned or raised
  hookLog   \* the object_hook calls of the last json.loads, in call order

vars == <<call, obj, text, src, schemaUsed, result, hookLog>>

\* ------------------------------------------------------------------ bounds

\* Largest positive exponent of a sample Decimal.
MaxPosExp == 2
\* Sample Decimal exponents go down to -MaxNegExp.
MaxNegExp == 8
\* Sample timezone offsets are whole hours in -MaxTzHours..MaxTzHours plus 30 minutes.
MaxTzHours == 5

\* ------------------------------------------------------------------ text

Digits == <<"0", "1", "2", "3", "4", "5", "6", "7", "8", "9">>

DigitSet == {Digits[i] : i \in 1..10}

IsDigit(c) == c \in DigitSet

DigitVal(c) == (CHOOSE i \in 1..10 : Digits[i] = c) - 1

AllDigits(s) == \A i \in 1..Len(s) : IsDigit(s[i])

RECURSIVE StrToNat(_)
\* int(s) for a string of decimal digits ("" gives 0).
StrToNat(s) ==
  IF Len(s) = 0 THEN 0
  ELSE StrToNat(SubSeq(s, 1, Len(s) - 1)) * 10 + DigitVal(s[Len(s)])

RECURSIVE NatToStr(_)
\* str(n) for n >= 0.
NatToStr(n) ==
  IF n < 10 THEN <<Digits[n + 1]>>
  ELSE NatToStr(n \div 10) \o <<Digits[(n % 10) + 1]>>

Zeros(n) == [i \in 1..n |-> "0"]

RECURSIVE Pow10(_)
Pow10(n) == IF n = 0 THEN 1 ELSE 10 * Pow10(n - 1)

\* "%0<w>d" % n
ZeroPad(n, w) ==
  LET s == NatToStr(n) IN IF Len(s) >= w THEN s ELSE Zeros(w - Len(s)) \o s

\* str.find: the first index of a character of cs in s, 0 when there is none.
FindAny(s, cs) ==
  IF \E i \in 1..Len(s) : s[i] \in cs
  THEN CHOOSE i \in 1..Len(s) : s[i] \in cs /\ \A j \in 1..(i - 1) : s[j] \notin cs
  ELSE 0

RECURSIVE Strip(_)
\* str.strip() of blanks.
Strip(s) ==
  IF Len(s) = 0 THEN s
  ELSE IF s[1] = " " THEN Strip(Tail(s))
  ELSE IF s[Len(s)] = " " THEN Strip(SubSeq(s, 1, Len(s) - 1))
  ELSE s

\* s.replace("_", "")
RECURSIVE RemoveUnderscores(_)
RemoveUnderscores(s) ==
  IF Len(s) = 0 THEN s
  ELSE IF s[1] = "_" THEN RemoveUnderscores(Tail(s))
  ELSE <<s[1]>> \o RemoveUnderscores(Tail(s))

\* The only element of a singleton set: Only({F(x) : x \in {e}}) is F(e) with
\* e evaluated once.
Only(S) == CHOOSE x \in S : TRUE

\* ------------------------------------------------------------ exceptions

Raise(exc) == [t |-> "raise", exc |-> exc]

IsRaise(v) == v.t = "raise"

\* ------------------------------------------------------------ Python values

PyStr(s) == [t |-> "str", s |-> s]

PyInt(n) == [t |-> "int", n |-> n]

PyList(elems) == [t |-> "list", elems |-> elems]

\* A dict is its items in insertion order: <<key, value>> pairs, keys are names.
PyDict(items) == [t |-> "dict", items |-> items]

\* A value of a type the encoder does not know (a set, a custom object).
PyObject == [t |-> "object"]

\* decimal.Decimal, a finite number: sign 0/1, integer coefficient, exponent.
Decimal(sign, coef, exp) ==
  [t |-> "Decimal", sign |-> sign, coef |-> coef, exp |-> exp, special |-> "none"]

\* decimal.Decimal, a special value: kind "F" is an infinity, "n" a quiet NaN,
\* "N" a signaling NaN; a NaN carries a payload of digits.
SpecialDecimal(sign, kind, payload) ==
  [t |-> "Decimal", sign |-> sign, coef |-> payload, exp |-> 0, special |-> kind]

Date(y, m, d) == [t |-> "date", y |-> y, m |-> m, d |-> d]

\* datetime.datetime; aware with a fixed offset of off seconds, or naive (off = 0).
DateTime(y, m, d, H, M, S, us, aware, off) ==
  [t |-> "datetime", y |-> y, m |-> m, d |-> d, H |-> H, M |-> M, S |-> S,
   us |-> us, aware |-> aware, off |-> off]

\* ------------------------------------------------------------ decimal.Decimal

\* str(d): scientific notation when the exponent is positive or the number
\* has more than six leading zeros after the point.
DecimalStr(d) ==
  IF d.special # "none"
  THEN (IF d.sign = 1 THEN <<"-">> ELSE <<>>)
         \o (CASE d.special = "F" -> <<"I", "n", "f", "i", "n", "i", "t", "y">>
               [] d.special = "n" -> <<"N", "a", "N">>
               [] OTHER -> <<"s", "N", "a", "N">>)
         \o (IF d.special # "F" /\ d.coef > 0 THEN NatToStr(d.coef) ELSE <<>>)
  ELSE
  Only({
    LET sign == IF d.sign = 1 THEN <<"-">> ELSE <<>>
        leftdigits == d.exp + Len(int)
        dotplace == IF d.exp <= 0 /\ leftdigits > -6 THEN leftdigits ELSE 1
        intpart == IF dotplace <= 0 THEN <<"0">>
                   ELSE IF dotplace >= Len(int) THEN int \o Zeros(dotplace - Len(int))
                   ELSE SubSeq(int, 1, dotplace)
        fracpart == IF dotplace <= 0 THEN <<".">> \o Zeros(-dotplace) \o int
                    ELSE IF dotplace >= Len(int) THEN <<>>
                    ELSE <<".">> \o SubSeq(int, dotplace + 1, Len(int))
        e == leftdigits - dotplace
        exp == IF e = 0 THEN <<>>
               ELSE IF e < 0 THEN <<"E", "-">> \o NatToStr(-e)
               ELSE <<"E", "+">> \o NatToStr(e)
    IN sign \o intpart \o fracpart \o exp
    : int \in {NatToStr(d.coef)} })

\* format(d, "f"): positional notation, never an exponent; a special value
\* as str() prints it.
DecimalFormatF(d) ==
  IF d.special # "none" THEN DecimalStr(d)
  ELSE
  Only({
    LET e == IF d.coef = 0 /\ d.exp > 0 THEN 0 ELSE d.exp
        sign == IF d.sign = 1 THEN <<"-">> ELSE <<>>
        dotplace == e + Len(int)
        intpart == IF dotplace < 0 THEN <<"0">>
                   ELSE IF dotplace > Len(int) THEN int \o Zeros(dotplace - Len(int))
                   ELSE IF dotplace = 0 THEN <<"0">>
                   ELSE SubSeq(int, 1, dotplace)
        fracpart == IF dotplace < 0 THEN Zeros(-dotplace) \o int
                    ELSE IF dotplace > Len(int) THEN <<>>
                    ELSE SubSeq(int, dotplace + 1, Len(int))
    IN sign \o intpart \o (IF Len(fracpart) > 0 THEN <<".">> \o fracpart ELSE <<>>)
    : int \in {NatToStr(d.coef)} })

\* s.lower() on the letters the numeric-string syntax knows.
Lower(s) ==
  LET low == [c \in {"I", "N", "F", "T", "Y", "A", "S"} |->
                CASE c = "I" -> "i" [] c = "N" -> "n" [] c = "F" -> "f" [] c = "T" -> "t"
                  [] c = "Y" -> "y" [] c = "A" -> "a" [] OTHER -> "s"]
  IN [i \in 1..Len(s) |-> IF s[i] \in DOMAIN low THEN low[s[i]] ELSE s[i]]

\* The special value an unsigned string spells in any letter case (Inf,
\* Infinity, NaN or sNaN with optional payload digits), or <<>> when none.
SpecialOf(sign, s) ==
  Only({ IF low \in {<<"i", "n", "f">>, <<"i", "n", "f", "i", "n", "i", "t", "y">>}
         THEN <<SpecialDecimal(sign, "F", 0)>>
         ELSE IF Len(low) >= 3 /\ SubSeq(low, 1, 3) = <<"n", "a", "n">>
                 /\ AllDigits(SubSeq(low, 4, Len(low)))
         THEN <<SpecialDecimal(sign, "n", StrToNat(SubSeq(low, 4, Len(low))))>>
         ELSE IF Len(low) >= 4 /\ SubSeq(low, 1, 4) = <<"s", "n", "a", "n">>
                 /\ AllDigits(SubSeq(low, 5, Len(low)))
         THEN <<SpecialDecimal(sign, "N", StrToNat(SubSeq(low, 5, Len(low))))>>
         ELSE <<>>
         : low \in {Lower(s)} })

\* Decimal(s) for a string, after strip() and the removal of underscores: the
\* numeric-string syntax [sign] digits [. digits] [E [sign] digits], or
\* [sign] Inf | Infinity | NaN | sNaN; InvalidOperation otherwise.
DecimalFromStr(raw) ==
  Only({
    LET hasSign == Len(s0) > 0 /\ s0[1] \in {"+", "-"}
        sign == IF hasSign /\ s0[1] = "-" THEN 1 ELSE 0
        s1 == IF hasSign THEN Tail(s0) ELSE s0
    IN Only({
       IF sp # <<>> THEN sp[1] ELSE
       Only({
         LET mant == IF ePos = 0 THEN s1 ELSE SubSeq(s1, 1, ePos - 1)
             e0 == IF ePos = 0 THEN <<>> ELSE SubSeq(s1, ePos + 1, Len(s1))
             eSigned == Len(e0) > 0 /\ e0[1] \in {"+", "-"}
         IN Only({
              LET intpart == IF dot = 0 THEN mant ELSE SubSeq(mant, 1, dot - 1)
                  fracpart == IF dot = 0 THEN <<>> ELSE SubSeq(mant, dot + 1, Len(mant))
                  ok == /\ AllDigits(intpart) /\ AllDigits(fracpart)
                        /\ Len(intpart) + Len(fracpart) > 0
                        /\ (ePos = 0 \/ (Len(eDigits) > 0 /\ AllDigits(eDigits)))
                  e == IF ePos = 0 THEN 0
                       ELSE IF eSigned /\ e0[1] = "-" THEN -StrToNat(eDigits)
                       ELSE StrToNat(eDigits)
              IN IF ok THEN Decimal(sign, StrToNat(intpart \o fracpart), e - Len(fracpart))
                 ELSE Raise("InvalidOperation")
              : dot \in {FindAny(mant, {"."})},
                eDigits \in {IF eSigned THEN Tail(e0) ELSE e0} })
         : ePos \in {FindAny(s1, {"E", "e"})} })
       : sp \in {SpecialOf(sign, s1)} })
    : s0 \in {RemoveUnderscores(Strip(raw))} })

\* A conversion that falls back to zero where Decimal() would raise.
DecimalOrZero(v) ==
  IF v.t = "str"
  THEN Only({ IF IsRaise(d) THEN Decimal(0, 0, 0) ELSE d : d \in {DecimalFromStr(v.s)} })
  ELSE IF v.t = "int" THEN Decimal(IF v.n < 0 THEN 1 ELSE 0, IF v.n < 0 THEN -v.n ELSE v.n, 0)
  ELSE Decimal(0, 0, 0)

\* Decimal(value) as the decoder calls it: on a str, an int, or anything else.
DecimalOf(v) ==
  CASE v.t = "str" -> DecimalFromStr(v.s)
    [] v.t = "int" -> Decimal(IF v.n < 0 THEN 1 ELSE 0, IF v.n < 0 THEN -v.n ELSE v.n, 0)
    [] v.t = "Decimal" -> v
    [] v.t = "list" -> Raise("ValueError")
    [] OTHER -> Raise("TypeError")

RECURSIVE Normalized(_, _, _)
\* The number of a finite Decimal without trailing zeros in its coefficient:
\* <<sign, coefficient, exponent>>, and <<0, 0, 0>> for a zero of either sign.
Normalized(sign, coef, exp) ==
  IF coef = 0 THEN <<0, 0, 0>>
  ELSE IF coef % 10 = 0 THEN Normalized(sign, coef \div 10, exp + 1)
  ELSE <<sign, coef, exp>>

\* a == b for two Decimals: equal as numbers (1E+3 == 1000, -0 == 0); a NaN
\* equals nothing, an infinity equals the infinity of its sign.
DecimalEq(a, b) ==
  IF a.special # "none" \/ b.special # "none"
  THEN a.special = "F" /\ b.special = "F" /\ a.sign = b.sign
  ELSE Normalized(a.sign, a.coef, a.exp) = Normalized(b.sign, b.coef, b.exp)

\* ------------------------------------------------------------ datetime

IsLeap(y) == (y % 4 = 0) /\ ((y % 100 # 0) \/ (y % 400 = 0))

DaysInMonth(y, m) ==
  IF m = 2 THEN (IF IsLeap(y) THEN 29 ELSE 28)
  ELSE IF m \in {4, 6, 9, 11} THEN 30 ELSE 31

\* date.isoformat(): YYYY-MM-DD
DateIsoformat(d) ==
  ZeroPad(d.y, 4) \o <<"-">> \o ZeroPad(d.m, 2) \o <<"-">> \o ZeroPad(d.d, 2)

\* The YYYY-MM-DD part of fromisoformat, on a string of length 10.  This is
\* the extended format isoformat() writes, which every Python version with
\* fromisoformat reads; the basic format without separators, week dates and
\* the Z suffix, which only later versions read, are not represented, and no
\* input below is written in them.
ParseIsoDate(s) ==
  IF /\ Len(s) = 10 /\ s[5] = "-" /\ s[8] = "-"
     /\ AllDigits(SubSeq(s, 1, 4)) /\ AllDigits(SubSeq(s, 6, 7)) /\ AllDigits(SubSeq(s, 9, 10))
  THEN Only({ IF y >= 1 /\ m \in 1..12 /\ d >= 1 /\ d <= DaysInMonth(y, m)
              THEN Date(y, m, d)
              ELSE Raise("ValueError")
              : y \in {StrToNat(SubSeq(s, 1, 4))},
                m \in {StrToNat(SubSeq(s, 6, 7))},
                d \in {StrToNat(SubSeq(s, 9, 10))} })
  ELSE Raise("ValueError")

\* date.fromisoformat(value): TypeError unless a str, ValueError when malformed.
DateFromisoformat(v) ==
  IF v.t # "str" THEN Raise("TypeError") ELSE ParseIsoDate(v.s)

\* An offset printed without regard to its sign.
OffsetStrUnsigned(off) ==
  LET a == IF off < 0 THEN -off ELSE off
  IN <<"+">> \o ZeroPad(a \div 3600, 2) \o <<":">> \o ZeroPad((a % 3600) \div 60, 2)

\* The UTC offset (in seconds) as isoformat() prints it: +HH:MM, with :SS
\* when the offset is not a whole number of minutes.
OffsetStr(off) ==
  LET a == IF off < 0 THEN -off ELSE off
  IN (IF off < 0 THEN <<"-">> ELSE <<"+">>)
       \o ZeroPad(a \div 3600, 2) \o <<":">> \o ZeroPad((a % 3600) \div 60, 2)
       \o (IF a % 60 # 0 THEN <<":">> \o ZeroPad(a % 60, 2) ELSE <<>>)

\* datetime.isoformat(): YYYY-MM-DDTHH:MM:SS[.ffffff][+HH:MM[:SS]]
DateTimeIsoformat(d) ==
  ZeroPad(d.y, 4) \o <<"-">> \o ZeroPad(d.m, 2) \o <<"-">> \o ZeroPad(d.d, 2)
    \o <<"T">> \o ZeroPad(d.H, 2) \o <<":">> \o ZeroPad(d.M, 2) \o <<":">> \o ZeroPad(d.S, 2)
    \o (IF d.us # 0 THEN <<".">> \o ZeroPad(d.us, 6) ELSE <<>>)
    \o (IF d.aware THEN OffsetStr(d.off) ELSE <<>>)

\* The time part HH[:MM[:SS[.f{1,6}]]]: <<H, M, S, us>>, or <<>> when malformed.
ParseIsoTime(s) ==
  LET n == Len(s)
      okH == n >= 2 /\ AllDigits(SubSeq(s, 1, 2))
      okM == n >= 5 /\ s[3] = ":" /\ AllDigits(SubSeq(s, 4, 5))
      okS == n >= 8 /\ s[6] = ":" /\ AllDigits(SubSeq(s, 7, 8))
      okF == n \in 10..15 /\ s[9] = "." /\ AllDigits(SubSeq(s, 10, n))
  IN IF \/ (n = 2 /\ okH)
        \/ (n = 5 /\ okH /\ okM)
        \/ (n = 8 /\ okH /\ okM /\ okS)
        \/ (okH /\ okM /\ okS /\ okF)
     THEN Only({ IF H <= 23 /\ M <= 59 /\ S <= 59 THEN <<H, M, S, us>> ELSE <<>>
                 : H \in {StrToNat(SubSeq(s, 1, 2))},
                   M \in {IF n >= 5 THEN StrToNat(SubSeq(s, 4, 5)) ELSE 0},
                   S \in {IF n >= 8 THEN StrToNat(SubSeq(s, 7, 8)) ELSE 0},
                   us \in {IF n >= 10 THEN StrToNat(SubSeq(s, 10, n)) * Pow10(15 - n) ELSE 0} })
     ELSE <<>>

\* The offset part HH[:MM[:SS]] after its sign: seconds, or -1 when malformed
\* (an offset with a fraction of a second is not represented: it is rejected).
ParseIsoOffset(s) ==
  Only({ IF tm = <<>> \/ Len(s) > 8 THEN -1 ELSE tm[1] * 3600 + tm[2] * 60 + tm[3]
         : tm \in {ParseIsoTime(s)} })

\* datetime.fromisoformat(s) for a str: the inverse of isoformat().
ParseIsoDateTime(s) ==
  IF Len(s) < 10 \/ Len(s) = 11 THEN Raise("ValueError")
  ELSE
    LET rest == SubSeq(s, 12, Len(s))
    IN Only({
         Only({ IF IsRaise(dt) \/ tm = <<>> \/ off < 0 THEN Raise("ValueError")
                ELSE DateTime(dt.y, dt.m, dt.d, tm[1], tm[2], tm[3], tm[4], tzPos # 0,
                              IF tzPos # 0 /\ rest[tzPos] = "-" THEN -off ELSE off)
                : dt \in {ParseIsoDate(SubSeq(s, 1, 10))},
                  tm \in {IF Len(s) = 10 THEN <<0, 0, 0, 0>>
                          ELSE ParseIsoTime(IF tzPos = 0 THEN rest ELSE SubSeq(rest, 1, tzPos - 1))},
                  off \in {IF tzPos = 0 THEN 0
                           ELSE ParseIsoOffset(SubSeq(rest, tzPos + 1, Len(rest)))} })
         : tzPos \in {FindAny(rest, {"+", "-"})} })

\* datetime.fromisoformat(value): TypeError unless a str, ValueError when malformed.
DateTimeFromisoformat(v) ==
  IF v.t # "str" THEN Raise("TypeError") ELSE ParseIsoDateTime(v.s)

\* ------------------------------------------------------------ dict helpers

HasKey(dct, k) == \E i \in 1..Len(dct.items) : dct.items[i][1] = k

\* dct[k] for a key that is present.
Get(dct, k) == dct.items[CHOOSE i \in 1..Len(dct.items) : dct.items[i][1] = k][2]

\* dct[k]: KeyError when the key is absent.
Subscript(dct, k) == IF HasKey(dct, k) THEN Get(dct, k) ELSE Raise("KeyError")

Keys(dct) == [i \in 1..Len(dct.items) |-> dct.items[i][1]]

KeySet(dct) == {dct.items[i][1] : i \in 1..Len(dct.items)}

\* dct[k] = v on the item list: replaces the value of an existing key, else appends.
SetItem(items, k, v) ==
  IF \E i \in 1..Len(items) : items[i][1] = k
  THEN [i \in 1..Len(items) |-> IF items[i][1] = k THEN <<k, v>> ELSE items[i]]
  ELSE Append(items, <<k, v>>)

\* The first raised exception among the evaluated arguments, in evaluation order.
FirstRaise(args) ==
  args[CHOOSE i \in 1..Len(args) : IsRaise(args[i]) /\ \A j \in 1..(i - 1) : ~IsRaise(args[j])]

AnyRaise(args) == \E i \in 1..Len(args) : IsRaise(args[i])

StockTag == <<"S", "t", "o", "c", "k">>

TradeTag == <<"T", "r", "a", "d", "e">>

\* x.startswith("literal") in place of x == "literal".
StartsWith(v, lit) ==
  v.t = "str" /\ Len(v.s) >= Len(lit) /\ SubSeq(v.s, 1, Len(lit)) = lit

\* x == "literal" for a Python value x: False unless x is that str.
StrEq(v, lit) == v.t = "str" /\ v.s = lit

\* ------------------------------------------------------------ domain classes

\* Stock.__init__
Stock(symbol, date, open_, high, low, close, volume) ==
  [t |-> "Stock", symbol |-> symbol, date |-> date, open |-> open_, high |-> high,
   low |-> low, close |-> close, volume |-> volume]

\* Trade.__init__
Trade(symbol, timestamp, order, price, volume, commission) ==
  [t |-> "Trade", symbol |-> symbol, timestamp |-> timestamp, order |-> order,
   price |-> price, volume |-> volume, commission |-> commission]

\* str(x) of a field value.
StrOf(v) ==
  CASE v.t = "Decimal" -> DecimalStr(v)
    [] v.t = "str" -> v.s
    [] v.t = "int" -> IF v.n < 0 THEN <<"-">> \o NatToStr(-v.n) ELSE NatToStr(v.n)
    [] OTHER -> <<"<", "o", "b", "j", "e", "c", "t", ">">>

\* x.isoformat() for a date or a datetime.
Isoformat(v) == IF v.t = "datetime" THEN DateTimeIsoformat(v) ELSE DateIsoformat(v)

\* A to_dict that writes the tag after the fields.
Stock_to_dict_tag_last(self) ==
  PyDict(<< <<"symbol", self.symbol>>,
            <<"date", IF self.date.t \in {"date", "datetime"}
                      THEN PyStr(Isoformat(self.date)) ELSE self.date>>,
            <<"open", PyStr(StrOf(self.open))>>,
            <<"high", PyStr(StrOf(self.high))>>,
            <<"low", PyStr(StrOf(self.low))>>,
            <<"close", PyStr(StrOf(self.close))>>,
            <<"volume", self.volume>>,
            <<"__type__", PyStr(StockTag)>> >>)

\* Stock.to_dict
Stock_to_dict(self) ==
  PyDict(<< <<"__type__", PyStr(StockTag)>>,
            <<"symbol", self.symbol>>,
            <<"date", IF self.date.t \in {"date", "datetime"}
                      THEN PyStr(Isoformat(self.date)) ELSE self.date>>,
            <<"open", PyStr(StrOf(self.open))>>,
            <<"high", PyStr(StrOf(self.high))>>,
            <<"low", PyStr(StrOf(self.low))>>,
            <<"close", PyStr(StrOf(self.close))>>,
            <<"volume", self.volume>> >>)

\* Trade.to_dict
Trade_to_dict(self) ==
  PyDict(<< <<"__type__", PyStr(TradeTag)>>,
            <<"symbol", self.symbol>>,
            <<"timestamp", IF self.timestamp.t = "datetime"
                           THEN PyStr(DateTimeIsoformat(self.timestamp)) ELSE self.timestamp>>,
            <<"order", self.order>>,
            <<"price", PyStr(StrOf(self.price))>>,
            <<"volume", self.volume>>,
            <<"commission", PyStr(StrOf(self.commission))>> >>)

\* ------------------------------------------------------------ generic codec

\* CustomEncoder.default
CustomEncoder_default(o) ==
  CASE o.t = "Stock" -> Stock_to_dict(o)
    [] o.t = "Trade" -> Trade_to_dict(o)
    [] o.t \in {"datetime", "date"} -> PyStr(Isoformat(o))
    [] o.t = "Decimal" -> PyStr(StrOf(o))
    [] OTHER -> Raise("TypeError")

\* Decimal(dct[k]): KeyError when the key is absent.
DecimalAt(dct, k) == IF HasKey(dct, k) THEN DecimalOf(Get(dct, k)) ELSE Raise("KeyError")

\* A decoder whose final return is missing: None for a mapping it does not
\* turn into a record.
custom_decoder_no_return(dct) ==
  IF HasKey(dct, "__type__") /\ Get(dct, "__type__") \in {PyStr(StockTag), PyStr(TradeTag)}
  THEN dct
  ELSE [t |-> "none"]

\* custom_decoder
custom_decoder(dct) ==
  IF HasKey(dct, "__type__")
  THEN
    IF StrEq(Get(dct, "__type__"), StockTag)
    THEN
      Only({ IF AnyRaise(args) THEN FirstRaise(args)
             ELSE Stock(args[2], args[1], args[3], args[4], args[5], args[6], args[7])
             : args \in {<< IF HasKey(dct, "date") THEN DateFromisoformat(Get(dct, "date"))
                            ELSE Raise("KeyError"),
                            Subscript(dct, "symbol"),
                            DecimalAt(dct, "open"), DecimalAt(dct, "high"),
                            DecimalAt(dct, "low"), DecimalAt(dct, "close"),
                            Subscript(dct, "volume") >>} })
    ELSE IF StrEq(Get(dct, "__type__"), TradeTag)
    THEN
      Only({ IF AnyRaise(args) THEN FirstRaise(args)
             ELSE Trade(args[2], args[1], args[3], args[4], args[5], args[6])
             : args \in {<< IF HasKey(dct, "timestamp")
                            THEN DateTimeFromisoformat(Get(dct, "timestamp"))
                            ELSE Raise("KeyError"),
                            Subscript(dct, "symbol"), Subscript(dct, "order"),
                            DecimalAt(dct, "price"), Subscript(dct, "volume"),
                            DecimalAt(dct, "commission") >>} })
    ELSE dct
  ELSE dct

\* ------------------------------------------------------------ JSON text

\* JSON text is a sequence of tokens: punctuation, string literals, integers.
Punct(c) == [k |-> c]

TokStr(s) == [k |-> "str", s |-> s]

TokNum(n) == [k |-> "num", n |-> n]

\* The text of a successful encode; a failed one is a raise.
JsonText(toks) == [t |-> "text", toks |-> toks]

\* The encoded parts of a container joined by commas, each after its key
\* when keys are given (a dict's items) and bare otherwise (a list's elements).
RECURSIVE JoinParts(_, _, _)
JoinParts(parts, keys, n) ==
  IF n = 0 THEN <<>>
  ELSE JoinParts(parts, keys, n - 1)
         \o (IF n > 1 THEN <<Punct(",")>> ELSE <<>>)
         \o (IF Len(keys) > 0 THEN <<TokStr(keys[n]), Punct(":")>> ELSE <<>>)
         \o parts[n].toks

RECURSIVE Encode(_)
\* JSONEncoder.encode with CustomEncoder.default: str, int, list and dict are
\* native; anything else goes through default() and its result is encoded.
Encode(v) ==
  CASE v.t = "str" -> JsonText(<<TokStr(v.s)>>)
    [] v.t = "int" -> JsonText(<<TokNum(v.n)>>)
    [] v.t \in {"list", "dict"} ->
         Only({ IF AnyRaise(parts) THEN FirstRaise(parts)
                ELSE IF v.t = "list"
                     THEN JsonText(<<Punct("[")>> \o JoinParts(parts, <<>>, Len(parts))
                                     \o <<Punct("]")>>)
                     ELSE JsonText(<<Punct("{")>>
                                     \o JoinParts(parts, [i \in 1..Len(parts) |-> v.items[i][1]],
                                                  Len(parts))
                                     \o <<Punct("}")>>)
                : parts \in {IF v.t = "list"
                             THEN [i \in 1..Len(v.elems) |-> Encode(v.elems[i])]
                             ELSE [i \in 1..Len(v.items) |-> Encode(v.items[i][2])]} })
    [] OTHER ->
         Only({ IF IsRaise(r) THEN r ELSE Encode(r) : r \in {CustomEncoder_default(v)} })

\* json.dumps(x, cls=CustomEncoder)
json_dumps(x) == Encode(x)

\* What one parse step returns: the value, the next token index, and the
\* object_hook calls made so far (each with the span of its object in the
\* text, the dict it was given and what it returned).
Parsed(v, next, log) == [t |-> "parsed", v |-> v, next |-> next, log |-> log]

JSONDecodeError == Raise("JSONDecodeError")

RECURSIVE ParseValue(_, _, _, _)
RECURSIVE ParseArray(_, _, _, _, _)
RECURSIVE ParseObject(_, _, _, _, _, _)

\* One JSON value starting at token i.
ParseValue(toks, i, hooked, log) ==
  IF i > Len(toks) THEN JSONDecodeError
  ELSE
    CASE toks[i].k = "str" -> Parsed(PyStr(toks[i].s), i + 1, log)
      [] toks[i].k = "num" -> Parsed(PyInt(toks[i].n), i + 1, log)
      [] toks[i].k = "[" -> ParseArray(toks, i + 1, hooked, <<>>, log)
      [] toks[i].k = "{" -> ParseObject(toks, i + 1, hooked, <<>>, log, i)
      [] OTHER -> JSONDecodeError

\* An array whose elements so far are acc; token i is what follows "[" or
\* follows an element: "]" ends the array, else "," and the next element.
ParseArray(toks, i, hooked, acc, log) ==
  IF i > Len(toks) THEN JSONDecodeError
  ELSE IF toks[i].k = "]" THEN Parsed(PyList(acc), i + 1, log)
  ELSE IF Len(acc) > 0 /\ toks[i].k # "," THEN JSONDecodeError
  ELSE
    Only({ IF IsRaise(e) THEN e
           ELSE ParseArray(toks, e.next, hooked, Append(acc, e.v), e.log)
           : e \in {ParseValue(toks, IF Len(acc) > 0 THEN i + 1 ELSE i, hooked, log)} })

\* An object opened at token start whose members so far are items; token i is
\* what follows "{" or follows a member.  On "}" the finished dict is handed to
\* custom_decoder when hooked, before anything after it is read, and what the
\* hook returns takes the object's place in the enclosing value.
ParseObject(toks, i, hooked, items, log, start) ==
  IF i > Len(toks) THEN JSONDecodeError
  ELSE IF toks[i].k = "}"
  THEN
    Only({ IF IsRaise(r) THEN r
           ELSE Parsed(r, i + 1,
                       IF hooked
                       THEN Append(log, [from |-> start, to |-> i, arg |-> PyDict(items),
                                         ret |-> r])
                       ELSE log)
           : r \in {IF hooked THEN custom_decoder(PyDict(items)) ELSE PyDict(items)} })
  ELSE IF Len(items) > 0 /\ toks[i].k # "," THEN JSONDecodeError
  ELSE
    Only({ IF kp + 1 > Len(toks) THEN JSONDecodeError
           ELSE IF toks[kp].k # "str" \/ toks[kp + 1].k # ":" THEN JSONDecodeError
           ELSE
             Only({ IF IsRaise(e) THEN e
                    ELSE ParseObject(toks, e.next, hooked, SetItem(items, toks[kp].s, e.v),
                                     e.log, start)
                    : e \in {ParseValue(toks, kp + 2, hooked, log)} })
           : kp \in {IF Len(items) > 0 THEN i + 1 ELSE i} })

\* json.loads(text): the whole text is one value.
Loads(toks, hooked) ==
  Only({ IF IsRaise(r) THEN r
         ELSE IF r.next # Len(toks) + 1 THEN JSONDecodeError
         ELSE r
         : r \in {ParseValue(toks, 1, hooked, <<>>)} })

\* json.loads(text) without the object_hook.
json_loads_unhooked(toks) == Loads(toks, FALSE)

\* json.loads(text, object_hook=custom_decoder)
json_loads(toks) == Loads(toks, TRUE)

\* ------------------------------------------------------------ schema codec

\* A declared field: fields.<type>(required=..., as_string=...).
Field(name, type, required, as_string) ==
  [name |-> name, type |-> type, required |-> required, as_string |-> as_string]

\* A StockSchema whose volume is not required.
StockSchemaVolumeOptional ==
  [fields |-> << Field("symbol", "Str", TRUE, FALSE),
                 Field("date", "Date", TRUE, FALSE),
                 Field("open", "Decimal", TRUE, TRUE),
                 Field("high", "Decimal", TRUE, TRUE),
                 Field("low", "Decimal", TRUE, TRUE),
                 Field("close", "Decimal", TRUE, TRUE),
                 Field("volume", "Integer", FALSE, FALSE) >>,
   post_load |-> "make_stock"]

\* StockSchema: the declared fields and the post_load method.
StockSchema ==
  [fields |-> << Field("symbol", "Str", TRUE, FALSE),
                 Field("date", "Date", TRUE, FALSE),
                 Field("open", "Decimal", TRUE, TRUE),
                 Field("high", "Decimal", TRUE, TRUE),
                 Field("low", "Decimal", TRUE, TRUE),
                 Field("close", "Decimal", TRUE, TRUE),
                 Field("volume", "Integer", TRUE, FALSE) >>,
   post_load |-> "make_stock"]

\* TradeSchema: the declared fields and the post_load method.
TradeSchema ==
  [fields |-> << Field("symbol", "Str", TRUE, FALSE),
                 Field("timestamp", "DateTime", TRUE, FALSE),
                 Field("order", "Str", TRUE, FALSE),
                 Field("price", "Decimal", TRUE, TRUE),
                 Field("volume", "Integer", TRUE, FALSE),
                 Field("commission", "Decimal", TRUE, TRUE) >>,
   post_load |-> "make_trade"]

FieldNames(schema) == {schema.fields[i].name : i \in 1..Len(schema.fields)}

\* A make_stock that hands the validated values over by position, in the
\* constructor's order symbol, date, open_, high, low, close, volume, taking
\* them in the alphabetical order of their keys.
make_stock_positional(data) ==
  LET args == <<Subscript(data, "close"), Subscript(data, "date"), Subscript(data, "high"),
                Subscript(data, "low"), Subscript(data, "open"), Subscript(data, "symbol"),
                Subscript(data, "volume")>>
  IN IF AnyRaise(args) THEN FirstRaise(args)
     ELSE Stock(args[1], args[2], args[3], args[4], args[5], args[6], args[7])

\* StockSchema.make_stock: open goes to the constructor's open_; a key the
\* validated data lacks is a KeyError.
make_stock(data) ==
  LET args == <<Subscript(data, "symbol"), Subscript(data, "date"), Subscript(data, "open"),
                Subscript(data, "high"), Subscript(data, "low"), Subscript(data, "close"),
                Subscript(data, "volume")>>
  IN IF AnyRaise(args) THEN FirstRaise(args)
     ELSE Stock(args[1], args[2], args[3], args[4], args[5], args[6], args[7])

\* TradeSchema.make_trade: Trade(**data), each key to the parameter of its
\* name; a missing or an unexpected keyword is a TypeError.
make_trade(data) ==
  IF KeySet(data) # {"symbol", "timestamp", "order", "price", "volume", "commission"}
  THEN Raise("TypeError")
  ELSE Trade(Get(data, "symbol"), Get(data, "timestamp"), Get(data, "order"),
             Get(data, "price"), Get(data, "volume"), Get(data, "commission"))

\* A field's _serialize: the attribute value to its JSON-ready form.
FieldSerialize(f, v) ==
  CASE f.type = "Str" -> PyStr(StrOf(v))
    [] f.type = "Integer" -> v
    [] f.type = "Date" -> PyStr(DateIsoformat(v))
    [] f.type = "DateTime" -> PyStr(DateTimeIsoformat(v))
    [] f.type = "Decimal" ->
         Only({ IF IsRaise(num) THEN num
                ELSE IF f.as_string THEN PyStr(DecimalFormatF(num)) ELSE num
                : num \in {DecimalFromStr(StrOf(v))} })

\* int(s) for a str: blanks stripped, an optional sign, then digits.
IntFromStr(raw) ==
  LET s0 == Strip(raw)
      signed == Len(s0) > 0 /\ s0[1] \in {"+", "-"}
      ds == IF signed THEN Tail(s0) ELSE s0
  IN IF Len(ds) > 0 /\ AllDigits(ds)
     THEN PyInt(IF signed /\ s0[1] = "-" THEN -StrToNat(ds) ELSE StrToNat(ds))
     ELSE Raise("ValueError")

\* A field's _deserialize: the JSON value to the native value, or a raise
\* that the schema reports as the field's "invalid" error.
FieldDeserialize(f, v) ==
  CASE f.type = "Str" -> IF v.t = "str" THEN v ELSE Raise("ValidationError")
    [] f.type = "Integer" ->
         IF v.t = "int" THEN v
         ELSE IF v.t = "str" THEN IntFromStr(v.s)
         ELSE Raise("ValidationError")
    [] f.type = "Date" -> IF v.t = "str" THEN ParseIsoDate(v.s) ELSE Raise("ValidationError")
    [] f.type = "DateTime" ->
         IF v.t = "str" /\ Len(v.s) > 10 THEN ParseIsoDateTime(v.s)
         ELSE Raise("ValidationError")
    [] f.type = "Decimal" ->
         IF v.t \in {"str", "int"}
         THEN Only({ IF IsRaise(num) THEN num
                     ELSE IF num.special # "none" THEN Raise("ValidationError")
                     ELSE num
                     : num \in {DecimalOf(v)} })
         ELSE Raise("ValidationError")

\* Schema.dump(obj): every declared field read off the object by name and
\* serialized.
SchemaDump(schema, o) ==
  LET present == SelectSeq(schema.fields, LAMBDA f : f.name \in DOMAIN o)
  IN Only({ IF AnyRaise(vals) THEN FirstRaise(vals)
            ELSE PyDict([i \in 1..Len(present) |-> <<present[i].name, vals[i]>>])
            : vals \in {[i \in 1..Len(present) |->
                           FieldSerialize(present[i], o[present[i].name])]} })

\* Schema.dumps(obj): the dumped dict printed as JSON.
SchemaDumps(schema, o) ==
  Only({ IF IsRaise(d) THEN d ELSE Encode(d) : d \in {SchemaDump(schema, o)} })

ValidationError(messages) == [t |-> "raise", exc |-> "ValidationError", messages |-> messages]

\* Schema.load(raw) on a parsed dict: validate every declared field (collecting
\* every failure), reject undeclared keys, then run post_load on the validated
\* data.
SchemaLoad(schema, raw) ==
  LET fs == schema.fields
      given == SelectSeq(fs, LAMBDA f : HasKey(raw, f.name))
      missing == {fs[i].name : i \in {j \in 1..Len(fs) : fs[j].required /\ ~HasKey(raw, fs[j].name)}}
      unknown == KeySet(raw) \ FieldNames(schema)
  IN Only({
       LET invalid == {given[i].name : i \in {j \in 1..Len(given) : IsRaise(vals[j])}}
           errors == [k \in missing \cup invalid \cup unknown |->
                        IF k \in missing THEN "Missing data for required field."
                        ELSE IF k \in invalid THEN "Not a valid value."
                        ELSE "Unknown field."]
           data == PyDict([i \in 1..Len(given) |-> <<given[i].name, vals[i]>>])
       IN IF missing \cup invalid \cup unknown # {} THEN ValidationError(errors)
          ELSE IF schema.post_load = "make_stock" THEN make_stock(data)
          ELSE make_trade(data)
       : vals \in {[i \in 1..Len(given) |->
                      FieldDeserialize(given[i], Get(raw, given[i].name))]} })

\* Schema.loads(text): parse the JSON, then load.
SchemaLoads(schema, toks) ==
  Only({ IF IsRaise(parsed) THEN parsed
         ELSE IF parsed.v.t # "dict"
              THEN ValidationError([k \in {"_schema"} |-> "Invalid input type."])
         ELSE SchemaLoad(schema, parsed.v)
         : parsed \in {Loads(toks, FALSE)} })

\* serialize_with_marshmallow
serialize_with_marshmallow(o) ==
  IF o.t \in {"Stock", "Trade"}
  THEN SchemaDumps(IF o.t = "Stock" THEN StockSchema ELSE TradeSchema, o)
  ELSE Raise("TypeError")

\* A decode that picks the schema by the keys of the JSON, not by its argument.
deserialize_by_shape(json_str, schema) ==
  SchemaLoads(IF \E p \in {Loads(json_str, FALSE)} :
                   ~IsRaise(p) /\ p.v.t = "dict" /\ HasKey(p.v, "timestamp")
              THEN TradeSchema ELSE StockSchema, json_str)

\* deserialize_with_marshmallow
deserialize_with_marshmallow(json_str, schema) == SchemaLoads(schema, json_str)

\* ------------------------------------------------------------ inputs

AAPL == <<"A", "A", "P", "L">>

TSLA == <<"T", "S", "L", "A">>

Symbols == {AAPL, TSLA, <<>>}

Orders == {<<"b", "u", "y">>, <<"s", "e", "l", "l">>, <<"h", "o", "l", "d">>}

Volumes == {0, 100, 1000000}

Coefs == {0, 1, 15, 200, 15025}

\* Sample decimals: both signs, exponents on both sides of the thresholds
\* where str() switches to scientific notation.
Decimals ==
  {Decimal(sg, c, e) : sg \in 0..1, c \in Coefs, e \in (-MaxNegExp)..MaxPosExp}

\* Sample calendar dates, month ends and a leap day included.
Dates ==
  {x \in {Date(y, m, d) : y \in {1, 2023, 2024, 9999}, m \in {1, 2, 12},
                          d \in {1, 15, 28, 29, 31}} : x.d <= DaysInMonth(x.y, x.m)}

\* Sample UTC offsets in seconds: whole and half hours on both sides of UTC.
Offsets == {(h * 60 + m) * 60 : h \in (-MaxTzHours)..MaxTzHours, m \in {0, 30}}

Clock == {<<0, 0, 0>>, <<9, 30, 0>>, <<23, 59, 59>>}

Micros == {0, 1, 123456, 500000, 999999}

\* Sample timestamps: naive and aware, with and without a fraction.
DateTimes ==
  {DateTime(dt.y, dt.m, dt.d, c[1], c[2], c[3], us, FALSE, 0) :
     dt \in {Date(2024, 1, 15), Date(1, 12, 31)}, c \in Clock, us \in Micros}
  \cup
  {DateTime(dt.y, dt.m, dt.d, c[1], c[2], c[3], us, TRUE, off) :
     dt \in {Date(2024, 1, 15), Date(1, 12, 31)}, c \in Clock, us \in Micros, off \in Offsets}

\* The quote of the specification's TSLA example, and one with other values.
BaseStock ==
  Stock(PyStr(TSLA), Date(2024, 1, 15), Decimal(0, 20000, -2), Decimal(0, 20550, -2),
        Decimal(0, 19800, -2), Decimal(0, 20325, -2), PyInt(500000))

BaseTrade ==
  Trade(PyStr(AAPL), DateTime(2024, 1, 15, 9, 30, 0, 0, TRUE, -18000), PyStr(<<"b", "u", "y">>),
        Decimal(0, 15030, -2), PyInt(100), Decimal(0, 100, -2))

\* Valid quotes: the base quote with one field at a time taken through its samples.
Stocks ==
  {[BaseStock EXCEPT ![f] = d] : f \in {"open", "high", "low", "close"}, d \in Decimals}
    \cup {[BaseStock EXCEPT !.date = d] : d \in Dates}
    \cup {[BaseStock EXCEPT !.symbol = PyStr(sy), !.volume = PyInt(v)] : sy \in Symbols, v \in Volumes}

\* Valid trades, likewise.
Trades ==
  {[BaseTrade EXCEPT ![f] = d] : f \in {"price", "commission"}, d \in Decimals}
    \cup {[BaseTrade EXCEPT !.timestamp = ts] : ts \in DateTimes}
    \cup {[BaseTrade EXCEPT !.symbol = PyStr(sy), !.volume = PyInt(v), !.order = PyStr(o)] :
            sy \in Symbols, v \in Volumes, o \in Orders}

Records == Stocks \cup Trades

\* Trees the generic encoder is given: records inside lists and untagged dicts.
Leaves == {BaseStock, BaseTrade, PyStr(AAPL), PyInt(7)}

Level1 ==
  {PyList(<<>>), PyDict(<<>>)}
    \cup {PyList(<<a>>) : a \in Leaves}
    \cup {PyList(<<a, b>>) : a \in Leaves, b \in Leaves}
    \cup {PyDict(<< <<"k", a>> >>) : a \in Leaves}
    \cup {PyDict(<< <<"k", a>>, <<"j", b>> >>) : a \in Leaves, b \in Leaves}

Level2 ==
  {PyList(<<a, b>>) : a \in Level1, b \in Leaves}
    \cup {PyDict(<< <<"k", a>> >>) : a \in Level1}
    \cup {PyDict(<< <<"j", b>>, <<"k", a>> >>) : a \in Level1, b \in {BaseTrade, PyInt(7)}}

Trees == Level1 \cup Level2

\* Values the encoder meets bare, and values of a type it does not know.
BareValues == Decimals \cup Dates \cup DateTimes

Unsupported == {PyObject, PyList(<<PyInt(7), PyObject>>), PyDict(<< <<"k", PyObject>> >>)}

EncodeInputs == Records \cup Trees \cup BareValues \cup Unsupported

\* ------------------------------------------------------------ caller's inputs

\* dct without its key k.
DropKey(dct, k) == PyDict(SelectSeq(dct.items, LAMBDA it : it[1] # k))

\* dct with dct[k] = v.
WithItem(dct, k, v) == PyDict(SetItem(dct.items, k, v))

\* s with its i-th character replaced by c.
CorruptAt(s, i, c) == [j \in 1..Len(s) |-> IF j = i THEN c ELSE s[j]]

\* Strings that are no ISO-8601 date: a letter in a digit's or a separator's
\* place, a cut or an overlong string, a field out of range.
BadDateStrs ==
  LET s == DateIsoformat(Date(2024, 1, 15))
  IN {CorruptAt(s, i, "x") : i \in 1..Len(s)}
       \cup {SubSeq(s, 1, n) : n \in 0..(Len(s) - 1)}
       \cup {s \o <<"x">>,
             DateIsoformat(Date(2024, 13, 1)), DateIsoformat(Date(2024, 0, 10)),
             DateIsoformat(Date(2024, 2, 30)), DateIsoformat(Date(2023, 2, 29)),
             DateIsoformat(Date(2024, 1, 32)), DateIsoformat(Date(0, 1, 1))}

\* Strings that are no ISO-8601 date and time, likewise (the separator between
\* date and time, character 11, may be any character).
BadDateTimeStrs ==
  LET s == DateTimeIsoformat(DateTime(2024, 1, 15, 9, 30, 0, 123456, TRUE, -18000))
  IN {CorruptAt(s, i, "x") : i \in (1..Len(s)) \ {11}}
       \cup {SubSeq(s, 1, n) : n \in (0..9) \cup {11, 12, 14, 15, 17, 18, 20}}
       \cup {s \o <<"x">>,
             DateTimeIsoformat(DateTime(2024, 1, 15, 24, 0, 0, 0, FALSE, 0)),
             DateTimeIsoformat(DateTime(2024, 1, 15, 9, 60, 0, 0, FALSE, 0)),
             DateTimeIsoformat(DateTime(2024, 1, 15, 9, 30, 60, 0, FALSE, 0)),
             DateTimeIsoformat(DateTime(2024, 2, 30, 9, 30, 0, 0, FALSE, 0))}

\* Strings that denote no number.
BadDecimalStrs ==
  {<<>>, <<".">>, <<"1", ".", "2", ".", "3">>, <<"E", "5">>, <<"1", "E">>, <<"1", "E", "+">>,
   <<"-", "-", "1">>, <<"a", "b", "c">>, <<"1", ",", "5">>, <<"$", "1">>, <<"1", " ", "5">>,
   <<"1", "5", "0", ".", "2", "5", "x">>, <<"-">>, <<"1", "E", "1", ".", "5">>}

\* Numeric strings that str() would not have written this way, and the
\* spellings of the special values.
OddDecimalStrs ==
  {<<"N", "a", "N">>, <<"-", "I", "n", "f", "i", "n", "i", "t", "y">>, <<"i", "n", "f">>,
   <<"s", "N", "A", "N", "1", "2">>,
   <<" ", ".", "5", " ">>, <<"1", ".">>, <<"1", "_", "0">>, <<"+", "5">>, <<"1", "e", "2">>,
   <<"0", "0", "7">>, <<"1", "5", "0", ".", "2", "5", "0">>}

\* Values that are no str.
NonStrings == {PyInt(5), PyList(<<>>), PyDict(<<>>), PyObject, BaseTrade}

DecimalKeys == {"open", "high", "low", "close", "price", "commission"}

\* The values a caller may put under key k of a tagged mapping.
Spoiled(k) ==
  IF k = "date" THEN {PyStr(x) : x \in BadDateStrs} \cup NonStrings
  ELSE IF k = "timestamp" THEN {PyStr(x) : x \in BadDateTimeStrs} \cup NonStrings
  ELSE IF k \in DecimalKeys
       THEN {PyStr(x) : x \in BadDecimalStrs \cup OddDecimalStrs} \cup NonStrings
  ELSE NonStrings

\* Tagged mappings as the encoder writes them, for a few records.
TaggedBases ==
  {Stock_to_dict(x) : x \in {BaseStock, [BaseStock EXCEPT !.open = Decimal(1, 1, -7),
                                                        !.date = Date(1, 12, 31)]}}
    \cup {Trade_to_dict(x) : x \in {BaseTrade, [BaseTrade EXCEPT !.timestamp =
                                                  DateTime(1, 12, 31, 23, 59, 59, 1, FALSE, 0)]}}

\* A tagged mapping d: as it is, with a key missing, with one value spoiled,
\* with the symbol and one more value spoiled, with the tag in last place.
TaggedVariants(d) ==
  {d, PyDict(Tail(d.items) \o <<d.items[1]>>)}
    \cup {DropKey(d, k) : k \in {"symbol", "date", "timestamp", "open", "volume", "commission"}}
    \cup UNION {{WithItem(d, k, v) : v \in Spoiled(k)} :
                  k \in {"symbol", "date", "timestamp", "open", "close", "price",
                         "commission", "volume"} \cap KeySet(d)}
    \cup UNION {{WithItem(WithItem(d, "symbol", PyInt(5)), k, PyStr(x)) :
                   x \in BadDecimalStrs \cup {<<"x">>}} :
                  k \in {"date", "timestamp", "low", "price"} \cap KeySet(d)}

\* Mappings tagged Stock or Trade.
TaggedMappings == UNION {TaggedVariants(d) : d \in TaggedBases}

\* What a caller may put under "__type__" that is neither "Stock" nor "Trade".
OtherTags ==
  {PyStr(<<"B", "o", "n", "d">>), PyStr(<<"s", "t", "o", "c", "k">>), PyStr(<<>>),
   PyStr(StockTag \o <<" ">>), PyStr(<<"T", "r", "a", "d", "e", "s">>),
   PyInt(1), PyList(<<>>), PyDict(<<>>), PyObject}

\* A mapping with the unknown tag tg: the tag alone, the tag on a record's
\* keys d, on d with a spoiled and a missing value, amid other keys.
UnknownTagVariants(d, tg) ==
  {PyDict(<< <<"__type__", tg>> >>),
   WithItem(d, "__type__", tg),
   WithItem(DropKey(WithItem(d, "symbol", PyInt(5)), "volume"), "__type__", tg),
   PyDict(<< <<"date", PyStr(<<"x">>)>>, <<"__type__", tg>>, <<"name", PyStr(AAPL)>> >>)}

UnknownTagMappings == UNION {UnknownTagVariants(d, tg) : d \in TaggedBases, tg \in OtherTags}

\* A mapping without the key "__type__", made from a tagged one.
UntaggedVariants(d) ==
  {DropKey(d, "__type__"),
   PyDict(<< <<"type", PyStr(StockTag)>> >> \o Tail(d.items)),
   PyDict(<< <<"k", d>> >>)}
    \cup {WithItem(DropKey(d, "__type__"), k, v) :
            k \in {"open", "date"} \cap KeySet(d), v \in NonStrings}

UntaggedMappings ==
  UNION {UntaggedVariants(d) : d \in TaggedBases}
    \cup {PyDict(<<>>)}
    \cup {PyDict(<< <<"k", v>> >>) : v \in NonStrings \cup {PyStr(StockTag)}}
    \cup {PyDict(<< <<"Stock", PyStr(<<"_", "_", "t", "y", "p", "e", "_", "_">>)>>,
                    <<"date", PyStr(x)>> >>) : x \in BadDecimalStrs}

GivenMappings == TaggedMappings \cup UnknownTagMappings \cup UntaggedMappings

\* The schema-encoded form of a few records, as dicts.
SchemaBases ==
  {SchemaDump(IF x.t = "Stock" THEN StockSchema ELSE TradeSchema, x) :
     x \in {BaseStock, BaseTrade, [BaseStock EXCEPT !.volume = PyInt(0)]}}

\* A schema-shaped document d with a field or two missing, with a value
\* spoiled, with volume written as a string, inside an array.
SchemaVariants(d) ==
  {DropKey(d, k) : k \in FieldNames(StockSchema) \cup FieldNames(TradeSchema)}
    \cup {DropKey(DropKey(d, k), "volume") : k \in {"symbol", "date", "price"}}
    \cup UNION {{WithItem(d, k, v) : v \in Spoiled(k) \ {PyObject, BaseTrade}} :
                  k \in {"symbol", "date", "timestamp", "open", "price", "volume"}}
    \cup {WithItem(d, "volume", PyStr(x)) : x \in {<<"1", "2">>, <<"a">>, <<>>}}
    \cup {PyList(<<d>>)}

\* A tagged mapping d nested in arrays and objects, beside an unknown tag.
NestedVariants(d) ==
  {PyList(<<PyDict(<< <<"__type__", tg>> >>), d>>) : tg \in OtherTags \ {PyObject}}
    \cup {PyDict(<< <<"k", d>>, <<"__type__", tg>> >>) :
            tg \in {PyStr(<<"B", "o", "n", "d">>), PyInt(1)}}
    \cup {PyDict(<< <<"k", PyList(<<d>>)>>, <<"j", DropKey(d, "__type__")>> >>)}

\* Whether the encoder can print v without its default(): only native values.
RECURSIVE IsNative(_)
IsNative(v) ==
  CASE v.t \in {"str", "int"} -> TRUE
    [] v.t = "list" -> \A i \in 1..Len(v.elems) : IsNative(v.elems[i])
    [] v.t = "dict" -> \A i \in 1..Len(v.items) : IsNative(v.items[i][2])
    [] OTHER -> FALSE

\* JSON documents a caller hands to a decoder.
GivenDocs ==
  UNION {SchemaVariants(d) : d \in SchemaBases}
    \cup UNION {NestedVariants(d) : d \in TaggedBases}
    \cup {d \in GivenMappings : IsNative(d)}

\* The documents as JSON text, and text that is no JSON.
GivenTexts ==
  {Encode(d).toks : d \in GivenDocs}
    \cup {SubSeq(j, 1, Len(j) - 1) : j \in {Encode(d).toks : d \in SchemaBases}}
    \cup {<<>>, <<Punct("}")>>, <<Punct("{"), TokStr("k"), Punct("}")>>,
          <<Punct("["), TokNum(1), Punct(","), Punct("]")>>, <<TokNum(1), TokNum(2)>>}

NoText == [t |-> "none"]

NoValue == [t |-> "none"]

Schemas == {StockSchema, TradeSchema}

SchemaName(sch) == IF sch.post_load = "make_stock" THEN "StockSchema" ELSE "TradeSchema"

\* ------------------------------------------------------------ operations

Init ==
  /\ call = "none"
  /\ obj = NoValue
  /\ text = NoText
  /\ src = "none"
  /\ schemaUsed = "none"
  /\ result = NoValue
  /\ hookLog = <<>>

\* json.dumps(x, cls=CustomEncoder)
JsonDumps ==
  /\ call = "none"
  /\ \E x \in EncodeInputs :
       \E r \in {json_dumps(x)} :
         /\ call' = "json.dumps"
         /\ obj' = x
         /\ text' = IF IsRaise(r) THEN NoText ELSE r
         /\ src' = IF IsRaise(r) THEN "none" ELSE "json.dumps"
         /\ result' = r
         /\ schemaUsed' = "none"
         /\ hookLog' = <<>>

\* json.loads(text, object_hook=custom_decoder) on the text at hand.
JsonLoads ==
  /\ text.t = "text"
  /\ \E r \in {json_loads(text.toks)} :
       /\ call' = "json.loads"
       /\ result' = IF IsRaise(r) THEN r ELSE r.v
       /\ hookLog' = IF IsRaise(r) THEN <<>> ELSE r.log
       /\ schemaUsed' = "none"
       /\ UNCHANGED <<obj, text, src>>

\* serialize_with_marshmallow(x)
SerializeWithMarshmallow ==
  /\ call = "none"
  /\ \E x \in Records \cup Unsupported \cup {PyStr(AAPL)} :
       \E r \in {serialize_with_marshmallow(x)} :
         /\ call' = "serialize_with_marshmallow"
         /\ obj' = x
         /\ text' = IF IsRaise(r) THEN NoText ELSE r
         /\ src' = IF IsRaise(r) THEN "none" ELSE "serialize_with_marshmallow"
         /\ result' = r
         /\ schemaUsed' = "none"
         /\ hookLog' = <<>>

\* deserialize_with_marshmallow(text, schema) on the text at hand.
DeserializeWithMarshmallow ==
  /\ text.t = "text"
  /\ \E sch \in Schemas :
       /\ call' = "deserialize_with_marshmallow"
       /\ schemaUsed' = SchemaName(sch)
       /\ result' = deserialize_with_marshmallow(text.toks, sch)
       /\ hookLog' = <<>>
       /\ UNCHANGED <<obj, text, src>>

\* The caller brings JSON text of its own.
CallerText ==
  /\ call = "none"
  /\ \E j \in GivenTexts :
       /\ call' = "caller"
       /\ obj' = NoValue
       /\ text' = JsonText(j)
       /\ src' = "caller"
       /\ schemaUsed' = "none"
       /\ result' = NoValue
       /\ hookLog' = <<>>

\* custom_decoder(dct) called on a mapping directly.
CustomDecoder ==
  /\ call = "none"
  /\ \E d \in GivenMappings :
       /\ call' = "custom_decoder"
       /\ obj' = d
       /\ text' = NoText
       /\ src' = "none"
       /\ schemaUsed' = "none"
       /\ result' = custom_decoder(d)
       /\ hookLog' = <<>>

\* x.to_dict() called on a record directly.
ToDict ==
  /\ call = "none"
  /\ \E x \in Records :
       /\ call' = "to_dict"
       /\ obj' = x
       /\ text' = NoText
       /\ src' = "none"
       /\ schemaUsed' = "none"
       /\ result' = IF x.t = "Stock" THEN Stock_to_dict(x) ELSE Trade_to_dict(x)
       /\ hookLog' = <<>>

Next ==
  \/ JsonDumps
  \/ JsonLoads
  \/ SerializeWithMarshmallow
  \/ DeserializeWithMarshmallow
  \/ CallerText
  \/ CustomDecoder
  \/ ToDict

Spec == Init /\ [][Next]_vars

\* ------------------------------------------------------------ properties

StockKeys == <<"__type__", "symbol", "date", "open", "high", "low", "close", "volume">>

TradeKeys == <<"__type__", "symbol", "timestamp", "order", "price", "volume", "commission">>

\* The state after json.loads decoded what json.dumps wrote.
GenericDecoded == call = "json.loads" /\ src = "json.dumps"

\* The state after a schema decode of what the schema encode of a record wrote.
SchemaDecoded == call = "deserialize_with_marshmallow" /\ src = "serialize_with_marshmallow"

\* The schema a record is encoded with.
OwnSchema(x) == IF x.t = "Stock" THEN "StockSchema" ELSE "TradeSchema"

\* y is a record of the kind of x with every field equal to that of x, decimals
\* compared as numbers.
SameFields(x, y) ==
  /\ y.t = x.t
  /\ \A f \in (DOMAIN x) \ {"t"} :
       IF x[f].t = "Decimal" THEN y[f].t = "Decimal" /\ DecimalEq(x[f], y[f])
       ELSE y[f].t = x[f].t /\ y[f] = x[f]

\* C1: Generic codec round trip.  For every valid Stock or Trade x, json.loads
\* with custom_decoder of the text json.dumps wrote with CustomEncoder is a
\* record of the same kind with every field identical to that of x: decimals
\* digit for digit, the date, the timestamp with its offset and microseconds.
C1_GenericRoundTrip ==
  (GenericDecoded /\ obj.t \in {"Stock", "Trade"}) => result = obj

\* C1 happens: a trade at offset -05:00 with microseconds came back identical.
C1_Witness ==
  /\ GenericDecoded
  /\ obj.t = "Trade"
  /\ obj.timestamp.aware /\ obj.timestamp.off = -18000 /\ obj.timestamp.us = 123456
  /\ result = obj

\* C2: Schema codec round trip.  For every valid Stock or Trade x, the schema
\* decode (with the schema of its kind) of the schema encode of x is a record
\* of the same kind whose every field equals that of x, each validated field
\* under the constructor argument of its own name (open under open_).
C2_SchemaRoundTrip ==
  (SchemaDecoded /\ obj.t \in {"Stock", "Trade"} /\ schemaUsed = OwnSchema(obj))
    => SameFields(obj, result)

\* C2 happens: a quote whose open is 15E+2 came back with open 1500, equal
\* as a number, and with its other prices in their own fields.
C2_Witness ==
  /\ SchemaDecoded
  /\ obj.t = "Stock" /\ schemaUsed = "StockSchema"
  /\ obj.open = Decimal(0, 15, 2)
  /\ result.t = "Stock"
  /\ result.open = Decimal(0, 1500, 0)
  /\ result.close = obj.close /\ result.high = obj.high /\ result.low = obj.low

\* C3: Pass-through.  custom_decoder returns a mapping without the key
\* "__type__" as it is, same keys and same values, and builds no record,
\* called directly or as the object_hook of json.loads.
C3_PassThrough ==
  /\ (call = "custom_decoder" /\ ~HasKey(obj, "__type__")) => result = obj
  /\ call = "json.loads" =>
       \A i \in 1..Len(hookLog) :
         ~HasKey(hookLog[i].arg, "__type__") => hookLog[i].ret = hookLog[i].arg

\* C3 happens: a mapping with all the keys of a quote but no tag came back as it was.
C3_Witness ==
  /\ call = "custom_decoder"
  /\ ~HasKey(obj, "__type__")
  /\ Keys(obj) = Tail(StockKeys)
  /\ result = obj

\* C4: Unknown tag.  custom_decoder returns a mapping whose "__type__" is
\* neither "Stock" nor "Trade" as it is, tag included, and raises nothing,
\* whatever its other keys.
C4_UnknownTag ==
  /\ (call = "custom_decoder" /\ HasKey(obj, "__type__")
        /\ Get(obj, "__type__") \notin {PyStr(StockTag), PyStr(TradeTag)}) => result = obj
  /\ call = "json.loads" =>
       \A i \in 1..Len(hookLog) :
         (HasKey(hookLog[i].arg, "__type__")
            /\ Get(hookLog[i].arg, "__type__") \notin {PyStr(StockTag), PyStr(TradeTag)})
           => hookLog[i].ret = hookLog[i].arg

\* C4 happens: a mapping tagged "Trades" with the keys of a trade, one of
\* them ill-typed, came back as it was.
C4_Witness ==
  /\ call = "custom_decoder"
  /\ HasKey(obj, "__type__")
  /\ Get(obj, "__type__") = PyStr(<<"T", "r", "a", "d", "e", "s">>)
  /\ HasKey(obj, "timestamp") /\ ~HasKey(obj, "volume")
  /\ Get(obj, "symbol") = PyInt(5)
  /\ result = obj

\* The JSON document in text, parsed without a hook.
Doc == Loads(text.toks, FALSE)

\* The declared field names of the schema last used.
UsedFieldNames ==
  IF schemaUsed = "StockSchema"
  THEN {"symbol", "date", "open", "high", "low", "close", "volume"}
  ELSE {"symbol", "timestamp", "order", "price", "volume", "commission"}

\* C5: Missing-field rejection.  A schema decode of a JSON object that lacks a
\* declared field f of the schema raises a validation error whose messages
\* name f; it returns no record.
C5_MissingField ==
  call = "deserialize_with_marshmallow" =>
    \A d \in {Doc} :
      (~IsRaise(d) /\ d.v.t = "dict") =>
        \A f \in UsedFieldNames \ KeySet(d.v) :
          /\ IsRaise(result)
          /\ result.exc = "ValidationError"
          /\ f \in DOMAIN result.messages
          /\ result.messages[f] = "Missing data for required field."

\* C5 happens: a trade's JSON without volume, all else in place, was rejected
\* by TradeSchema for volume alone.
C5_Witness ==
  /\ call = "deserialize_with_marshmallow" /\ schemaUsed = "TradeSchema"
  /\ \E d \in {Doc} : ~IsRaise(d) /\ d.v.t = "dict" /\ KeySet(d.v) = UsedFieldNames \ {"volume"}
  /\ IsRaise(result) /\ result.exc = "ValidationError"
  /\ DOMAIN result.messages = {"volume"}

\* s is a JSON-ready str that writes the decimal d exactly and in plain
\* positional notation: no exponent part.
PlainExact(v, d) ==
  /\ v.t = "str"
  /\ \A i \in 1..Len(v.s) : v.s[i] \notin {"E", "e"}
  /\ DecimalFromStr(v.s) = d

\* C6: Decimal exactness on the generic path.  Every decimal in a price or
\* commission field of a record, and every decimal the encoder meets bare, is
\* written as a JSON string, not a number, that is the exact base-10 form of
\* the decimal without exponent notation.
C6_DecimalPlainExact ==
  /\ (call = "json.dumps" /\ obj.t = "Decimal") =>
       /\ text.t = "text" /\ Len(text.toks) = 1 /\ text.toks[1].k = "str"
       /\ PlainExact(PyStr(text.toks[1].s), obj)
  /\ (call = "to_dict") =>
       \A f \in DecimalKeys \cap DOMAIN obj : PlainExact(Get(result, f), obj[f])

\* C6, what the code does: the bare decimal 1E-7 was written as the string
\* "1E-7", exact but in exponent notation.
C6_Witness ==
  /\ call = "json.dumps"
  /\ obj = Decimal(0, 1, -7)
  /\ text.t = "text"
  /\ text.toks = <<TokStr(<<"1", "E", "-", "7">>)>>
  /\ DecimalFromStr(text.toks[1].s) = obj

\* C7: Wrong-schema rejection.  The schema decode of a trade's schema JSON with
\* StockSchema, and of a quote's with TradeSchema, raises a validation error
\* and returns no record.
C7_WrongSchema ==
  (SchemaDecoded /\ obj.t \in {"Stock", "Trade"} /\ schemaUsed # OwnSchema(obj))
    => (IsRaise(result) /\ result.exc = "ValidationError")

\* C7 happens: a trade's JSON was rejected by StockSchema, for the fields of a
\* quote it lacks and for the fields of a trade it has.
C7_Witness ==
  /\ SchemaDecoded
  /\ obj.t = "Trade" /\ schemaUsed = "StockSchema"
  /\ IsRaise(result) /\ result.exc = "ValidationError"
  /\ DOMAIN result.messages =
       {"date", "open", "high", "low", "close", "timestamp", "order", "price", "commission"}

\* The mapping dct is tagged "Stock" or "Trade".
IsTagged(dct) ==
  HasKey(dct, "__type__") /\ Get(dct, "__type__") \in {PyStr(StockTag), PyStr(TradeTag)}

\* The mapping holds a malformed date or timestamp string under the key the
\* decoder parses.
BadDateIn(dct) ==
  \/ /\ Get(dct, "__type__") = PyStr(StockTag) /\ HasKey(dct, "date")
     /\ Get(dct, "date").t = "str" /\ Get(dct, "date").s \in BadDateStrs
  \/ /\ Get(dct, "__type__") = PyStr(TradeTag) /\ HasKey(dct, "timestamp")
     /\ Get(dct, "timestamp").t = "str" /\ Get(dct, "timestamp").s \in BadDateTimeStrs

\* The decimal keys of the mapping that hold a string denoting no number.
BadDecimalsIn(dct) ==
  {f \in DecimalKeys \cap KeySet(dct) : Get(dct, f).t = "str" /\ Get(dct, f).s \in BadDecimalStrs}

\* The decimal r was made from the mapping's value v: it prints as the string
\* v unless v is an int or a numeric string in another spelling.
DecimalMadeFrom(v, r) ==
  /\ r.t = "Decimal"
  /\ \/ v.t = "int" /\ r = Decimal(0, v.n, 0)
     \/ v.t = "str" /\ (DecimalStr(r) = v.s \/ v.s \in OddDecimalStrs)

\* The record r is fully built from the tagged mapping dct: of the tagged
\* kind, every key present, every field set from the value under its key.
BuiltFrom(dct, r) ==
  IF Get(dct, "__type__") = PyStr(StockTag)
  THEN /\ r.t = "Stock"
       /\ {StockKeys[i] : i \in 1..Len(StockKeys)} \subseteq KeySet(dct)
       /\ r.symbol = Get(dct, "symbol") /\ r.volume = Get(dct, "volume")
       /\ r.date.t = "date" /\ PyStr(DateIsoformat(r.date)) = Get(dct, "date")
       /\ \A f \in {"open", "high", "low", "close"} : DecimalMadeFrom(Get(dct, f), r[f])
  ELSE /\ r.t = "Trade"
       /\ {TradeKeys[i] : i \in 1..Len(TradeKeys)} \subseteq KeySet(dct)
       /\ r.symbol = Get(dct, "symbol") /\ r.volume = Get(dct, "volume")
       /\ r.order = Get(dct, "order")
       /\ r.timestamp.t = "datetime"
       /\ PyStr(DateTimeIsoformat(r.timestamp)) = Get(dct, "timestamp")
       /\ \A f \in {"price", "commission"} : DecimalMadeFrom(Get(dct, f), r[f])

C9_WireFields ==
  /\ call = "to_dict" =>
       /\ Keys(result) = IF obj.t = "Stock" THEN StockKeys ELSE TradeKeys
       /\ result.items[1][2] = PyStr(IF obj.t = "Stock" THEN StockTag ELSE TradeTag)
  /\ (call = "serialize_with_marshmallow" /\ obj.t \in {"Stock", "Trade"}) =>
       /\ text.t = "text"
       /\ \A d \in {Doc} :
            /\ ~IsRaise(d) /\ d.v.t = "dict"
            /\ Len(d.v.items) = Len(IF obj.t = "Stock" THEN StockKeys ELSE TradeKeys) - 1
            /\ KeySet(d.v) = {(IF obj.t = "Stock" THEN StockKeys ELSE TradeKeys)[i] :
                                i \in 2..Len(IF obj.t = "Stock" THEN StockKeys ELSE TradeKeys)}

\* C9 happens: to_dict of a quote gave its eight keys, the tag first.
C9_Witness ==
  /\ call = "to_dict"
  /\ obj.t = "Stock"
  /\ Len(result.items) = 8
  /\ result.items[1] = <<"__type__", PyStr(StockTag)>>
  /\ Keys(result)[8] = "volume"

\* The positions of the tokens that open an object in the text.
ObjectStarts == {i \in 1..Len(text.toks) : text.toks[i].k = "{"}

\* C10: Bottom-up nested reconstruction.  When json.loads with custom_decoder
\* decodes a text, the hook is called once for every mapping of the text, for
\* a mapping inside another before the one that encloses it; a call on a
\* tagged mapping returns its record and a call on any other returns the
\* mapping, so that a tree of records, lists and untagged mappings written by
\* json.dumps comes back as it was.
C10_BottomUp ==
  /\ (call = "json.loads" /\ ~IsRaise(result)) =>
       /\ {hookLog[i].from : i \in 1..Len(hookLog)} = ObjectStarts
       /\ Len(hookLog) = Cardinality(ObjectStarts)
       /\ \A i, j \in 1..Len(hookLog) :
            (hookLog[j].from > hookLog[i].from /\ hookLog[j].to < hookLog[i].to) => j < i
       /\ \A i \in 1..Len(hookLog) :
            IF IsTagged(hookLog[i].arg)
            THEN hookLog[i].ret.t = (IF Get(hookLog[i].arg, "__type__") = PyStr(StockTag)
                                     THEN "Stock" ELSE "Trade")
            ELSE hookLog[i].ret = hookLog[i].arg
  /\ (GenericDecoded /\ obj.t \in {"list", "dict"}) => result = obj

\* C10 happens: a mapping holding a list of a quote and a trade came back with
\* both records in place, the hook called on the quote, the trade, then the
\* mapping around them.
C10_Witness ==
  /\ GenericDecoded
  /\ obj.t = "dict"
  /\ Len(hookLog) = 3
  /\ hookLog[1].ret.t = "Stock" /\ hookLog[2].ret.t = "Trade"
  /\ hookLog[3].from = 1 /\ hookLog[3].to = Len(text.toks)
  /\ hookLog[3].ret = obj
  /\ result = obj

====
